---------------------------- MODULE Spec2Model ----------------------------
(***************************************************************************)
(* Model of amgcl::solver::cg (src/amgcl/solver/cg.hpp): the preconditioned*)
(* Conjugate Gradient engine, its four scratch vectors r, s, p, q and the  *)
(* two solve operators.                                                    *)
(*                                                                         *)
(* value_type is double, as in the solvers of src/unnamed/part_000: every  *)
(* scalar operation is the IEEE 754 binary64 operation, rounded to nearest *)
(* (ties to even), with subnormals, signed zeros, infinities and NaN.      *)
(* SpecExact instantiates the same engine with exact rational arithmetic.  *)
(*                                                                         *)
(* operator() is modelled at two grains.  Spec, SpecSPD and SpecExact take *)
(* one source statement per step.  SpecConc, where two callers share the   *)
(* scratch vectors without any lock, takes one load or store of a scratch  *)
(* vector element per step, so that the callers interleave between any two *)
(* accesses a backend primitive makes.                                     *)
(***************************************************************************)
EXTENDS Integers, Sequences, FiniteSets, TLC

(***************************************************************************)
(* Bounds of the model.                                                    *)
(***************************************************************************)
\* Problem size n of the engines of Spec and SpecConc; SpecSPD and SpecExact
\* use Dim + 1.
Dim == 2
\* Largest prm.maxiter an engine of Spec is constructed with.
MaxIter == 3
\* Number of solve calls the caller of Spec makes on the engine.
MaxCalls == 2


(***************************************************************************)
(* Natural numbers of any size, for the 53-bit significands of value_type  *)
(* and their products: a natural is the sequence of its digits in base     *)
(* 2^14, least significant first, without leading zero digits (0 is <<>>). *)
(***************************************************************************)
Base == 16384

LimbBits == 14

\* The digits of a, without the leading zero digits.
RECURSIVE BTrim(_)
BTrim(a) ==
    IF a = <<>> THEN <<>>
    ELSE IF a[Len(a)] = 0 THEN BTrim(SubSeq(a, 1, Len(a) - 1))
    ELSE a

\* The natural with the value of the integer i >= 0.
RECURSIVE BNat(_)
BNat(i) == IF i = 0 THEN <<>> ELSE <<i % Base>> \o BNat(i \div Base)

\* -1, 0 or 1 as a < b, a = b or a > b, comparing from digit i downwards.
RECURSIVE BCmpFrom(_, _, _)
BCmpFrom(a, b, i) ==
    IF i = 0 THEN 0
    ELSE IF a[i] < b[i] THEN -1
    ELSE IF a[i] > b[i] THEN 1
    ELSE BCmpFrom(a, b, i - 1)

BCmp(a, b) ==
    IF Len(a) < Len(b) THEN -1
    ELSE IF Len(a) > Len(b) THEN 1
    ELSE BCmpFrom(a, b, Len(a))

\* a + b + c, for a carry c.
RECURSIVE BAddC(_, _, _)
BAddC(a, b, c) ==
    IF a = <<>> /\ b = <<>> THEN BNat(c)
    ELSE LET x == (IF a = <<>> THEN 0 ELSE a[1]) + (IF b = <<>> THEN 0 ELSE b[1]) + c
         IN  <<x % Base>> \o BAddC(IF a = <<>> THEN a ELSE Tail(a),
                                   IF b = <<>> THEN b ELSE Tail(b), x \div Base)

BAdd(a, b) == BAddC(a, b, 0)

\* The digits of a - b - c for a borrow c, where a >= b + c.
RECURSIVE BSubC(_, _, _)
BSubC(a, b, c) ==
    IF a = <<>> THEN <<>>
    ELSE LET x == a[1] - (IF b = <<>> THEN 0 ELSE b[1]) - c
         IN  <<x % Base>> \o BSubC(Tail(a), IF b = <<>> THEN b ELSE Tail(b),
                                   IF x < 0 THEN 1 ELSE 0)

BSub(a, b) == BTrim(BSubC(a, b, 0))

\* a * k + c for integers 0 <= k, c <= 2^16.
RECURSIVE BMulSmall(_, _, _)
BMulSmall(a, k, c) ==
    IF a = <<>> THEN BNat(c)
    ELSE LET x == a[1] * k + c
         IN  <<x % Base>> \o BMulSmall(Tail(a), k, x \div Base)

\* a * b.
RECURSIVE BMul(_, _)
BMul(a, b) ==
    IF a = <<>> \/ b = <<>> THEN <<>>
    ELSE BAdd(BMulSmall(a, b[1], 0), BTrim(<<0>> \o BMul(a, Tail(b))))

\* The number of bits of the integer i >= 0.
RECURSIVE IntBitLen(_)
IntBitLen(i) == IF i = 0 THEN 0 ELSE 1 + IntBitLen(i \div 2)

\* The number of bits of a.
BBitLen(a) ==
    IF a = <<>> THEN 0 ELSE LimbBits * (Len(a) - 1) + IntBitLen(a[Len(a)])

\* Bit k of a (bit 0 is the least significant).
BBit(a, k) ==
    IF k \div LimbBits + 1 > Len(a) THEN 0
    ELSE (a[k \div LimbBits + 1] \div 2^(k % LimbBits)) % 2

\* a * 2^k.
BShl(a, k) ==
    IF a = <<>> THEN <<>>
    ELSE [i \in 1..(k \div LimbBits) |-> 0] \o BMulSmall(a, 2^(k % LimbBits), 0)

\* floor(a / d) for an integer 0 < d <= 2^14, dividing from digit i downwards
\* with remainder r so far.
RECURSIVE BDivSmallFrom(_, _, _, _)
BDivSmallFrom(a, d, i, r) ==
    IF i = 0 THEN <<>>
    ELSE LET x == r * Base + a[i]
         IN  BDivSmallFrom(a, d, i - 1, x % d) \o <<x \div d>>

\* floor(a / 2^k).
BShr(a, k) ==
    IF k \div LimbBits >= Len(a) THEN <<>>
    ELSE LET hi == SubSeq(a, k \div LimbBits + 1, Len(a))
         IN  BTrim(BDivSmallFrom(hi, 2^(k % LimbBits), Len(hi), 0))

\* The largest digit q <= qhat with q * d <= r.
RECURSIVE BDigit(_, _, _)
BDigit(r, d, qhat) ==
    IF qhat = 0 THEN 0
    ELSE IF BCmp(BMulSmall(d, qhat, 0), r) > 0 THEN BDigit(r, d, qhat - 1)
    ELSE qhat

\* Long division of a by d in base 2^14, taking the digits of a from digit j
\* downwards: r is the remainder and q the quotient so far, r1 the remainder
\* with digit j of a brought down and k the quotient digit it gives.  est is
\* the estimate of floor(r1 / d) from the leading digits of r1 and d, for
\* r1 < d * Base and a leading digit of d that is at least Base / 2: it is
\* floor(r1 / d), or 1 or 2 above it.  The result is <<quotient, remainder>>.
RECURSIVE BDivFrom(_, _, _, _, _)
BDivFrom(a, d, j, r, q) ==
    IF j = 0 THEN <<q, r>>
    ELSE
    LET n   == Len(d)
        r1  == BTrim(<<a[j]>> \o r)
        est == IF Len(r1) < n THEN 0
               ELSE IF Len(r1) = n THEN r1[n] \div d[n]
               ELSE IF r1[n + 1] >= d[n] THEN Base - 1
               ELSE (r1[n + 1] * Base + r1[n]) \div d[n]
        k   == BDigit(r1, d, est)
    IN  BDivFrom(a, d, j - 1,
                 IF k = 0 THEN r1 ELSE BSub(r1, BMulSmall(d, k, 0)),
                 BTrim(<<k>> \o q))

\* <<floor(a / d), a mod d * 2^k>> for d > 0, where k is the shift that makes
\* the leading digit of d at least Base / 2.
BDivMod(a, d) ==
    LET k == LimbBits - IntBitLen(d[Len(d)])
        n == BShl(a, k)
    IN  BDivFrom(n, BShl(d, k), Len(n), <<>>, <<>>)

\* floor(sqrt(t)) for an integer 0 <= t < 2^28, by Newton's iteration from
\* x >= sqrt(t).
RECURSIVE ISqrtFrom(_, _)
ISqrtFrom(t, x) ==
    LET y == (x + t \div x) \div 2
    IN  IF y >= x THEN x ELSE ISqrtFrom(t, y)

\* floor(sqrt(m)), by Newton's iteration from x >= sqrt(m): y is the next
\* iterate floor((x + floor(m / x)) / 2).
RECURSIVE BSqrtFrom(_, _)
BSqrtFrom(m, x) ==
    LET y == BShr(BAdd(x, BDivMod(m, x)[1]), 1)
    IN  IF BCmp(y, x) >= 0 THEN x ELSE BSqrtFrom(m, y)

\* floor(sqrt(m)): the iteration starts above the root of the one or two
\* leading digits of m.
BSqrt(m) ==
    IF m = <<>> THEN <<>>
    ELSE LET l == Len(m)
         IN  IF l % 2 = 0
             THEN BSqrtFrom(m, BShl(BNat(ISqrtFrom(m[l] * Base + m[l - 1], Base) + 1),
                                    LimbBits * ((l - 2) \div 2)))
             ELSE BSqrtFrom(m, BShl(BNat(ISqrtFrom(m[l], Base) + 1),
                                    LimbBits * ((l - 1) \div 2)))

(***************************************************************************)
(* value_type: IEEE 754 binary64 (double), round to nearest, ties to even. *)
(* A scalar is a record [sign, exp, man].  For exp < SpecialExp it is the  *)
(* finite number (-1)^sign * man * 2^exp, in the one form the format has   *)
(* for it: man has 53 bits and MinExp <= exp <= MaxExp (normal), or man    *)
(* has fewer bits and exp = MinExp (subnormal), or man = 0 and exp = 0     *)
(* (zero, +0 or -0).  exp = SpecialExp marks, as the all-ones exponent     *)
(* field does: an infinity (man = 0) and NaN (man # 0).                    *)
(***************************************************************************)
Precision == 53

MinExp == -1074

MaxExp == 971

SpecialExp == 972

NaN == [sign |-> 0, exp |-> SpecialExp, man |-> <<1>>]

Inf(s) == [sign |-> s, exp |-> SpecialExp, man |-> <<>>]

FZero(s) == [sign |-> s, exp |-> 0, man |-> <<>>]

FIsNaN(a) == a.exp = SpecialExp /\ a.man # <<>>

FIsInf(a) == a.exp = SpecialExp /\ a.man = <<>>

FIsFinite(a) == a.exp < SpecialExp

FIsZero(a) == a.exp < SpecialExp /\ a.man = <<>>

\* The double nearest to (-1)^s * (m + t) * 2^e, where m is a natural and t
\* tells that the exact value has a part 0 < t < 1 below the last bit of m
\* (then m has at least Precision + 2 bits).
Round(s, m, e, t) ==
    IF m = <<>> THEN FZero(s)
    ELSE
    LET len == BBitLen(m)
        sh  == IF len - Precision > MinExp - e THEN len - Precision ELSE MinExp - e
    IN  IF sh <= 0
        THEN (IF e + sh > MaxExp THEN Inf(s)
              ELSE [sign |-> s, exp |-> e + sh, man |-> BShl(m, -sh)])
        ELSE
        LET q     == BShr(m, sh)
            guard == BBit(m, sh - 1) = 1
            \* whether m has a nonzero bit among its sh - 1 lowest bits
            low   == \E i \in 1..Len(m) :
                         \/ i <= (sh - 1) \div LimbBits /\ m[i] # 0
                         \/ /\ i = (sh - 1) \div LimbBits + 1
                            /\ m[i] % 2^((sh - 1) % LimbBits) # 0
            rest  == t \/ low
            up    == guard /\ (rest \/ BBit(q, 0) = 1)
            r     == IF up THEN BAddC(q, <<>>, 1) ELSE q
            carry == BBitLen(r) > Precision
            rm    == IF carry THEN BShr(r, 1) ELSE r
            re    == IF carry THEN e + sh + 1 ELSE e + sh
        IN  IF rm = <<>> THEN FZero(s)
            ELSE IF re > MaxExp THEN Inf(s)
            ELSE [sign |-> s, exp |-> re, man |-> rm]

\* The integer i as a double: exact, as an int has fewer than 53 bits.
FromInt(i) ==
    IF i = 0 THEN FZero(0)
    ELSE LET m == BNat(IF i < 0 THEN -i ELSE i)
         IN  [sign |-> IF i < 0 THEN 1 ELSE 0,
              exp |-> BBitLen(m) - Precision,
              man |-> BShl(m, Precision - BBitLen(m))]

Zero == FZero(0)

One == FromInt(1)

\* -a.
FNeg(a) == IF FIsNaN(a) THEN a ELSE [a EXCEPT !.sign = 1 - @]

\* -1, 0 or 1 as |a| < |b|, |a| = |b| or |a| > |b|, for finite a and b.
CmpMag(a, b) ==
    IF a.man = <<>> \/ b.man = <<>>
    THEN (IF a.man = b.man THEN 0 ELSE IF a.man = <<>> THEN -1 ELSE 1)
    ELSE IF a.exp < b.exp THEN -1
    ELSE IF a.exp > b.exp THEN 1
    ELSE BCmp(a.man, b.man)

\* a + b for finite a and b.
AddFinite(a, b) ==
    IF a.man = <<>> /\ b.man = <<>>
    THEN FZero(IF a.sign = 1 /\ b.sign = 1 THEN 1 ELSE 0)
    ELSE IF a.man = <<>> THEN b
    ELSE IF b.man = <<>> THEN a
    ELSE IF a.exp - b.exp > Precision + 11 THEN a
    ELSE IF b.exp - a.exp > Precision + 11 THEN b
    ELSE
    LET e  == IF a.exp < b.exp THEN a.exp ELSE b.exp
        ma == BShl(a.man, a.exp - e)
        mb == BShl(b.man, b.exp - e)
        c  == BCmp(ma, mb)
    IN  IF a.sign = b.sign THEN Round(a.sign, BAdd(ma, mb), e, FALSE)
        ELSE IF c = 0 THEN FZero(0)
        ELSE IF c > 0 THEN Round(a.sign, BSub(ma, mb), e, FALSE)
        ELSE Round(b.sign, BSub(mb, ma), e, FALSE)

\* a + b: Inf + (-Inf) is NaN.
FAdd(a, b) ==
    IF FIsNaN(a) \/ FIsNaN(b) THEN NaN
    ELSE IF FIsInf(a) THEN (IF FIsInf(b) /\ b.sign # a.sign THEN NaN ELSE a)
    ELSE IF FIsInf(b) THEN b
    ELSE AddFinite(a, b)

\* a * b: 0 * Inf is NaN.
FMul(a, b) ==
    LET s == (a.sign + b.sign) % 2
    IN  IF FIsNaN(a) \/ FIsNaN(b) THEN NaN
        ELSE IF FIsInf(a) \/ FIsInf(b)
             THEN (IF FIsZero(a) \/ FIsZero(b) THEN NaN ELSE Inf(s))
        ELSE IF FIsZero(a) \/ FIsZero(b) THEN FZero(s)
        ELSE Round(s, BMul(a.man, b.man), a.exp + b.exp, FALSE)

\* a / b for finite nonzero a and b: both significands are shifted to 4 full
\* digits (56 bits), the quotient of 2^56 ma by mb is taken with its
\* remainder, and is rounded once.
DivFinite(a, b) ==
    LET la == BBitLen(a.man)
        lb == BBitLen(b.man)
        qr == BDivMod(BShl(a.man, 8 * LimbBits - la), BShl(b.man, 4 * LimbBits - lb))
    IN  Round((a.sign + b.sign) % 2, qr[1],
              a.exp - b.exp + la - lb - 4 * LimbBits, qr[2] # <<>>)

\* a / b: x/0 is +-Inf for x # 0, 0/0 and Inf/Inf are NaN, x/Inf is 0.
FDiv(a, b) ==
    LET s == (a.sign + b.sign) % 2
    IN  IF FIsNaN(a) \/ FIsNaN(b) THEN NaN
        ELSE IF FIsInf(a) THEN (IF FIsInf(b) THEN NaN ELSE Inf(s))
        ELSE IF FIsInf(b) THEN FZero(s)
        ELSE IF FIsZero(b) THEN (IF FIsZero(a) THEN NaN ELSE Inf(s))
        ELSE IF FIsZero(a) THEN FZero(s)
        ELSE DivFinite(a, b)

\* sqrt(a) for finite a > 0: the integer root of man * 2^k, with k such that
\* the exponent is even and the root has at least Precision + 2 bits; the
\* root is inexact when its square is not man * 2^k.
SqrtFinite(a) ==
    LET len  == BBitLen(a.man)
        k0   == 2 * (Precision + 2) - len
        k    == IF (a.exp - k0) % 2 = 0 THEN k0 ELSE k0 + 1
        m    == BShl(a.man, k)
        root == BSqrt(m)
    IN  Round(0, root, (a.exp - k) \div 2, BMul(root, root) # m)

\* std::sqrt(a): NaN for a < 0, -0 for -0.
FSqrt(a) ==
    IF FIsNaN(a) THEN NaN
    ELSE IF FIsZero(a) THEN a
    ELSE IF a.sign = 1 THEN NaN
    ELSE IF FIsInf(a) THEN a
    ELSE SqrtFinite(a)

\* a > b: every comparison with NaN is false, and -0 equals +0.
FGt(a, b) ==
    IF FIsNaN(a) \/ FIsNaN(b) THEN FALSE
    ELSE IF FIsZero(a) /\ FIsZero(b) THEN FALSE
    ELSE IF a.sign # b.sign THEN a.sign = 0
    ELSE IF FIsInf(a) \/ FIsInf(b)
         THEN (IF a.sign = 0 THEN FIsInf(a) /\ ~FIsInf(b) ELSE FIsInf(b) /\ ~FIsInf(a))
    ELSE IF a.sign = 0 THEN CmpMag(a, b) > 0
    ELSE CmpMag(a, b) < 0

(***************************************************************************)
(* value_type: exact arithmetic.  cg is a template over the backend, and   *)
(* value_type is whatever the backend names; besides double the engine is  *)
(* instantiated here with the rational numbers, computed without rounding. *)
(* A rational is a record [neg, num, den]: the number (-1)^neg * num / den *)
(* in lowest terms with den > 0, and neg = 0 for zero.  den = 0 marks the  *)
(* undefined result of a division by zero; it makes every result computed *)
(* from it undefined and every comparison with it false.  The norm of a    *)
(* vector of rationals is the root of a rational: sqrt(q) is kept as the   *)
(* record [radicand |-> q].                                                *)
(***************************************************************************)
\* a mod d for d > 0.
BRem(a, d) == BShr(BDivMod(a, d)[2], LimbBits - IntBitLen(d[Len(d)]))

\* The greatest common divisor of a and b, by Euclid's algorithm.
RECURSIVE BGcd(_, _)
BGcd(a, b) == IF b = <<>> THEN a ELSE BGcd(b, BRem(a, b))

Undefined == [neg |-> 0, num |-> <<>>, den |-> <<>>]

IsDefined(a) == a.den # <<>>

\* The rational (-1)^s * m / d, for d > 0: the common divisor g of m and d is
\* taken out.
Ratio(s, m, d) ==
    IF m = <<>> THEN [neg |-> 0, num |-> <<>>, den |-> <<1>>]
    ELSE LET g == BGcd(m, d)
         IN  [neg |-> s, num |-> BDivMod(m, g)[1], den |-> BDivMod(d, g)[1]]

\* The number of zero bits below the lowest nonzero bit of a > 0, counted
\* from bit k.
RECURSIVE BLowZeros(_, _)
BLowZeros(a, k) == IF BBit(a, k) = 1 THEN k ELSE BLowZeros(a, k + 1)

\* The value of the double a as a rational: every finite double is one, its
\* denominator a power of two.  For exp < 0 the t factors of two common to
\* man and 2^-exp are taken out.
ExactOfDouble(a) ==
    IF ~FIsFinite(a) THEN Undefined
    ELSE IF a.man = <<>> THEN [neg |-> 0, num |-> <<>>, den |-> <<1>>]
    ELSE IF a.exp >= 0 THEN [neg |-> a.sign, num |-> BShl(a.man, a.exp), den |-> <<1>>]
    ELSE LET t == BLowZeros(a.man, 0)
         IN  [neg |-> a.sign,
              num |-> BShr(a.man, IF t < -a.exp THEN t ELSE -a.exp),
              den |-> BShl(<<1>>, IF t < -a.exp THEN -a.exp - t ELSE 0)]

\* -a.
QNeg(a) == IF a.num = <<>> THEN a ELSE [a EXCEPT !.neg = 1 - @]

\* a + b: the sum of (-1)^a.neg * ma / d and (-1)^b.neg * mb / d over the
\* common denominator d.
QAdd(a, b) ==
    IF ~IsDefined(a) \/ ~IsDefined(b) THEN Undefined
    ELSE LET ma == BMul(a.num, b.den)
             mb == BMul(b.num, a.den)
             c  == BCmp(ma, mb)
         IN  Ratio(IF a.neg = b.neg \/ c >= 0 THEN a.neg ELSE b.neg,
                   IF a.neg = b.neg THEN BAdd(ma, mb)
                   ELSE IF c >= 0 THEN BSub(ma, mb)
                   ELSE BSub(mb, ma),
                   BMul(a.den, b.den))

\* a * b.
QMul(a, b) ==
    IF ~IsDefined(a) \/ ~IsDefined(b) THEN Undefined
    ELSE Ratio((a.neg + b.neg) % 2, BMul(a.num, b.num), BMul(a.den, b.den))

\* a / b: undefined for b = 0.
QDiv(a, b) ==
    IF ~IsDefined(a) \/ ~IsDefined(b) \/ b.num = <<>> THEN Undefined
    ELSE Ratio((a.neg + b.neg) % 2, BMul(a.num, b.den), BMul(a.den, b.num))

\* -1, 0 or 1 as a < 0, a = 0 or a > 0.
QSign(a) == IF a.num = <<>> THEN 0 ELSE IF a.neg = 1 THEN -1 ELSE 1

\* -1, 0 or 1 as a < b, a = b or a > b.
QCmp(a, b) ==
    IF QSign(a) # QSign(b) THEN (IF QSign(a) < QSign(b) THEN -1 ELSE 1)
    ELSE QSign(a) * BCmp(BMul(a.num, b.den), BMul(b.num, a.den))

(***************************************************************************)
(* The operations of value_type the engine and the backend use, for either *)
(* value_type.  The literals 0 and 1 of operator() are written as doubles; *)
(* like the int literals of the source they take the value_type of the     *)
(* operand they meet.                                                      *)
(***************************************************************************)
IsDouble(a) == "man" \in DOMAIN a

\* The rational operand a, or the literal a converted to a rational.
Exact(a) == IF IsDouble(a) THEN ExactOfDouble(a) ELSE a

\* sign(a) * a^2, a rational for a rational and for a root: a < b exactly
\* when SignedSquare(a) < SignedSquare(b).  The square of a rational in lowest
\* terms is in lowest terms.
SignedSquare(a) ==
    IF "radicand" \in DOMAIN a THEN a.radicand
    ELSE LET q == Exact(a)
         IN  [neg |-> q.neg, num |-> BMul(q.num, q.num), den |-> BMul(q.den, q.den)]

IsNaN(a) ==
    IF IsDouble(a) THEN FIsNaN(a)
    ELSE IF "radicand" \in DOMAIN a THEN ~IsDefined(a.radicand)
    ELSE ~IsDefined(a)

IsFinite(a) ==
    IF IsDouble(a) THEN FIsFinite(a)
    ELSE IF "radicand" \in DOMAIN a THEN IsDefined(a.radicand)
    ELSE IsDefined(a)

IsZero(a) ==
    IF IsDouble(a) THEN FIsZero(a)
    ELSE IF "radicand" \in DOMAIN a THEN IsDefined(a.radicand) /\ a.radicand.num = <<>>
    ELSE IsDefined(a) /\ a.num = <<>>

\* -a.
Neg(a) == IF IsDouble(a) THEN FNeg(a) ELSE QNeg(a)

\* a + b.
Add(a, b) ==
    IF IsDouble(a) /\ IsDouble(b) THEN FAdd(a, b) ELSE QAdd(Exact(a), Exact(b))

\* a - b.
Sub(a, b) ==
    IF IsDouble(a) /\ IsDouble(b) THEN FAdd(a, FNeg(b))
    ELSE QAdd(Exact(a), QNeg(Exact(b)))

\* a * b.
Mul(a, b) ==
    IF IsDouble(a) /\ IsDouble(b) THEN FMul(a, b) ELSE QMul(Exact(a), Exact(b))

\* a / b; the quotient of two roots is the root of the quotient.
Div(a, b) ==
    IF IsDouble(a) /\ IsDouble(b) THEN FDiv(a, b)
    ELSE IF "radicand" \in DOMAIN a /\ "radicand" \in DOMAIN b
    THEN [radicand |-> QDiv(a.radicand, b.radicand)]
    ELSE QDiv(Exact(a), Exact(b))

\* sqrt(a); for a rational the root is kept by its radicand, and is undefined
\* for a < 0.
Sqrt(a) ==
    IF IsDouble(a) THEN FSqrt(a)
    ELSE IF IsDefined(a) /\ a.neg = 0 THEN [radicand |-> a]
    ELSE [radicand |-> Undefined]

\* a > b; rationals and roots are compared by their signed squares.
Gt(a, b) ==
    IF IsDouble(a) /\ IsDouble(b) THEN FGt(a, b)
    ELSE LET sa == SignedSquare(a)
             sb == SignedSquare(b)
         IN  IsDefined(sa) /\ IsDefined(sb) /\ QCmp(sa, sb) > 0

\* a == b.
Eq(a, b) ==
    IF IsDouble(a) /\ IsDouble(b)
    THEN IF FIsNaN(a) \/ FIsNaN(b) THEN FALSE
         ELSE IF FIsZero(a) /\ FIsZero(b) THEN TRUE
         ELSE a = b
    ELSE LET sa == SignedSquare(a)
             sb == SignedSquare(b)
         IN  IsDefined(sa) /\ IsDefined(sb) /\ QCmp(sa, sb) = 0

\* a <= b.
Le(a, b) ==
    IF IsDouble(a) /\ IsDouble(b) THEN ~FIsNaN(a) /\ ~FIsNaN(b) /\ ~FGt(a, b)
    ELSE LET sa == SignedSquare(a)
             sb == SignedSquare(b)
         IN  IsDefined(sa) /\ IsDefined(sb) /\ QCmp(sa, sb) <= 0

(***************************************************************************)
(* Backend capability set (amgcl/backend/interface.hpp, spec section 4.1). *)
(* A vector is a sequence of n scalars, a matrix a sequence of n rows.  A  *)
(* zero entry of a matrix is a structural zero of the sparse matrix: it is *)
(* not stored and takes no part in a product.  Sums are accumulated from   *)
(* +0 in index order.  Every primitive that writes a vector is given by    *)
(* the value of its element i (the _at operators), every reduction by its  *)
(* accumulation step.                                                      *)
(***************************************************************************)
\* The sequence with the elements of function v over 1..n, each evaluated once.
Tup(v) == SubSeq(v, 1, Len(v))

\* create_vector(n): a vector of n zeros.
create_vector(n) == Tup([i \in 1..n |-> Zero])

\* The sum of inner_product so far plus the product of one pair of elements.
inner_product_term(acc, ui, vi) == Add(acc, Mul(ui, vi))

\* The sum acc extended by the elements i .. n of inner_product(u, v).
RECURSIVE InnerProductFrom(_, _, _, _)
InnerProductFrom(acc, u, v, i) ==
    IF i > Len(u) THEN acc
    ELSE InnerProductFrom(inner_product_term(acc, u[i], v[i]), u, v, i + 1)

\* inner_product(u, v) = sum of u[i] * v[i].
inner_product(u, v) == InnerProductFrom(Zero, u, v, 1)

\* norm(v) = sqrt(inner_product(v, v)).
norm(v) == Sqrt(inner_product(v, v))

\* The sum of a row product so far plus the stored entry j of row times v[j].
RowDotTerm(acc, row, v, j) == Add(acc, Mul(row[j], v[j]))

\* The column of the first stored entry of row after column j, 0 when there
\* is none.
NextStored(row, j) ==
    LET stored == {c \in (j + 1)..Len(row) : ~IsZero(row[c])}
    IN  IF stored = {} THEN 0 ELSE CHOOSE c \in stored : \A d \in stored : c <= d

\* The sum acc extended by the stored entries j .. n of row times v.
RECURSIVE RowDotFrom(_, _, _, _)
RowDotFrom(acc, row, v, j) ==
    IF j > Len(row) THEN acc
    ELSE IF IsZero(row[j]) THEN RowDotFrom(acc, row, v, j + 1)
    ELSE RowDotFrom(RowDotTerm(acc, row, v, j), row, v, j + 1)

\* The component of A*v for one row of A.
RowDot(row, v) == RowDotFrom(Zero, row, v, 1)

\* Element i of residual(f, A, x, out): out[i] := f[i] - (A*x)[i].
residual_at(f, A, x, i) == Sub(f[i], RowDot(A[i], x))

\* residual(rhs, A, x, out): out := rhs - A*x.
residual(f, A, x) == Tup([i \in 1..Len(f) |-> residual_at(f, A, x, i)])

\* The value axpby stores in y[i] from the loaded elements xi and yi:
\* a*xi + b*yi.
axpby_term(a, xi, b, yi) == Add(Mul(a, xi), Mul(b, yi))

\* Element i of axpby(a, x, b, y): y[i] := a*x[i] + b*y[i].
axpby_at(a, x, b, y, i) == axpby_term(a, x[i], b, y[i])

\* axpby(a, x, b, y): y := a*x + b*y.
axpby(a, x, b, y) == Tup([i \in 1..Len(x) |-> axpby_at(a, x, b, y, i)])

\* The value spmv stores in y[i] from the finished row product dot and the
\* loaded element yi: alpha*dot + beta*yi.
spmv_term(alpha, dot, beta, yi) == Add(Mul(alpha, dot), Mul(beta, yi))

\* Element i of spmv(alpha, A, x, beta, y): y[i] := alpha*(A*x)[i] + beta*y[i].
spmv_at(alpha, A, x, beta, y, i) == spmv_term(alpha, RowDot(A[i], x), beta, y[i])

\* A faulty spmv, which stands in for spmv when the sensitivity of a property
\* to it is examined: beta is taken for 1, y := alpha*A*x + y.
spmvAccumulating(alpha, A, x, beta, y) ==
    Tup([i \in 1..Len(y) |-> spmv_term(alpha, RowDot(A[i], x), One, y[i])])

\* spmv(alpha, A, x, beta, y): y := alpha*A*x + beta*y.
spmv(alpha, A, x, beta, y) ==
    Tup([i \in 1..Len(y) |-> spmv_at(alpha, A, x, beta, y, i)])

\* copy(src, dst): dst := src.
copy(src) == src

\* clear(v): v := 0.
clear(v) == Tup([i \in 1..Len(v) |-> Zero])

(***************************************************************************)
(* Preconditioner capability set (spec section 4.2).  A preconditioner is  *)
(* a record [M, top]: apply(in, out) computes out := M*in, and top_matrix()*)
(* returns top, the system matrix the preconditioner was built for.        *)
(***************************************************************************)
\* Element i of P(in, out).
PrecondApply_at(P, in, i) == RowDot(P.M[i], in)

PrecondApply(P, in) == Tup([i \in 1..Len(in) |-> PrecondApply_at(P, in, i)])

top_matrix(P) == P.top

(***************************************************************************)
(* cg::params and the constructor.                                         *)
(***************************************************************************)
\* params(maxiter, tol).
params(maxiter, tol) == [maxiter |-> maxiter, tol |-> tol]

\* cg(n, prm): stores prm and n and preallocates r, s, p, q.
cg(n, prm) ==
    [prm |-> prm, n |-> n,
     r |-> create_vector(n), s |-> create_vector(n),
     p |-> create_vector(n), q |-> create_vector(n)]

(***************************************************************************)
(* Faulty variants of single statements of operator().  None of them is    *)
(* part of a specification; each stands in for the statement it names when *)
(* the sensitivity of a property to that statement is examined.            *)
(***************************************************************************)
\* Residual that ignores x: r := rhs.
ResidualIgnoringX(f) ==
    [f EXCEPT !.r = f.rhs, !.pc = "init"]

\* ZeroRhs that returns without backend::clear(x).
ZeroRhsKeepingX(f) ==
    IF Eq(f.norm_of_rhs, Zero)
    THEN [f EXCEPT !.ret = [iterations |-> 0, relative_residual |-> f.norm_of_rhs],
                   !.pc = "done"]
    ELSE [f EXCEPT !.iter = 0, !.pc = "check"]

\* LoopCheck with the iteration bound off by one: iter <= prm.maxiter.
LoopCheckOffByOne(f) ==
    LET res == Div(norm(f.r), f.norm_of_rhs)
    IN  IF Gt(res, f.prm.tol) /\ f.iter <= f.prm.maxiter
        THEN [f EXCEPT !.res = res, !.pc = "precond"]
        ELSE [f EXCEPT !.res = res,
                       !.ret = [iterations |-> f.iter, relative_residual |-> res],
                       !.pc = "done"]

\* LoopCheck of a do-while loop: the first pass is not bounded by maxiter.
LoopCheckDoWhile(f) ==
    LET res == Div(norm(f.r), f.norm_of_rhs)
    IN  IF Gt(res, f.prm.tol) /\ (f.iter = 0 \/ f.iter < f.prm.maxiter)
        THEN [f EXCEPT !.res = res, !.pc = "precond"]
        ELSE [f EXCEPT !.res = res,
                       !.ret = [iterations |-> f.iter, relative_residual |-> res],
                       !.pc = "done"]

\* LoopCheck that does not test the residual: the loop runs maxiter times.
LoopCheckIgnoringTol(f) ==
    LET res == Div(norm(f.r), f.norm_of_rhs)
    IN  IF f.iter < f.prm.maxiter
        THEN [f EXCEPT !.res = res, !.pc = "precond"]
        ELSE [f EXCEPT !.res = res,
                       !.ret = [iterations |-> f.iter, relative_residual |-> res],
                       !.pc = "done"]

\* UpdateDirection whose iteration 0 adds s to p instead of overwriting p.
UpdateDirectionAdding(f) ==
    [f EXCEPT !.p = IF f.iter # 0
                    THEN axpby(One, f.s, Div(f.rho1, f.rho2), f.p)
                    ELSE axpby(One, f.s, One, f.p),
              !.pc = "spmv"]

\* ComputeAlpha that guards the division: alpha := 0 when <q, p> == 0.
ComputeAlphaGuarded(f) ==
    [f EXCEPT !.alpha = IF IsZero(inner_product(f.q, f.p))
                        THEN Zero
                        ELSE Div(f.rho1, inner_product(f.q, f.p)),
              !.pc = "update_x"]

\* UpdateX with the sign of alpha lost: x := x - alpha * p.
UpdateXWrongSign(f) ==
    [f EXCEPT !.x = axpby(Neg(f.alpha), f.p, One, f.x), !.pc = "update_r"]

\* UpdateR that writes the new residual into rhs as well.
UpdateRIntoRhs(f) ==
    [f EXCEPT !.r = axpby(Neg(f.alpha), f.q, One, f.r),
              !.rhs = axpby(Neg(f.alpha), f.q, One, f.r),
              !.iter = @ + 1, !.pc = "check"]

\* ApplyPrecondElement that does not restart the sum at a new row: the sum of
\* row i + 1 starts from (*s)[i].
ApplyPrecondElementCarryingSum(f) ==
    IF NextStored(f.P.M[f.i + 1], f.j) # 0
    THEN [f EXCEPT !.acc = RowDotTerm(f.acc, f.P.M[f.i + 1], f.r,
                                      NextStored(f.P.M[f.i + 1], f.j)),
                   !.j = NextStored(f.P.M[f.i + 1], f.j)]
    ELSE [f EXCEPT !.s[f.i + 1] = f.acc,
                   !.i = IF f.i + 1 = Len(f.s) THEN 0 ELSE f.i + 1,
                   !.j = 0,
                   !.acc = IF f.i + 1 = Len(f.s) THEN Zero ELSE @,
                   !.napply = IF f.i + 1 = Len(f.s) THEN @ + 1 ELSE @,
                   !.pc = IF f.i + 1 = Len(f.s) THEN "rho" ELSE "precond"]

(***************************************************************************)
(* The four-argument operator(), statement by statement.  A frame f is the *)
(* state one activation of operator() can touch: the engine's members      *)
(* (prm, r, s, p, q), the arguments (A, P, rhs, x), the locals (rho1, rho2,*)
(* norm_of_rhs, iter, res, alpha), the position pc, the returned tuple ret,*)
(* and two counters of what the activation called (napply: calls of P,     *)
(* nspmv: calls of backend::spmv).  Inside a backend primitive, i is the   *)
(* number of elements the primitive has finished, j the progress inside    *)
(* the current element, u and v the elements loaded into registers and acc *)
(* the partial sum; between statements i = 0, j = 0 and u = v = acc = 0.   *)
(* Each operator below maps the frame before a statement to the frame      *)
(* after it.                                                               *)
(***************************************************************************)
\* backend::residual(rhs, A, x, *r);
Residual(f) ==
    [f EXCEPT !.r = residual(f.rhs, f.A, f.x), !.pc = "init"]

\* value_type rho1 = 0, rho2 = 0; value_type norm_of_rhs = backend::norm(rhs);
InitScalars(f) ==
    [f EXCEPT !.rho1 = Zero, !.rho2 = Zero,
              !.norm_of_rhs = norm(f.rhs), !.pc = "zero_rhs"]

\* if (norm_of_rhs == 0) { backend::clear(x); return make_tuple(0UL, norm_of_rhs); }
\* size_t iter = 0;
ZeroRhs(f) ==
    IF Eq(f.norm_of_rhs, Zero)
    THEN [f EXCEPT !.x = clear(f.x),
                   !.ret = [iterations |-> 0, relative_residual |-> f.norm_of_rhs],
                   !.pc = "done"]
    ELSE [f EXCEPT !.iter = 0, !.pc = "check"]

\* The test of the loop, res being the value assigned in the condition:
\* res > prm.tol && iter < prm.maxiter; when it fails, return make_tuple(iter, res);
LoopExit(f, res) ==
    IF Gt(res, f.prm.tol) /\ f.iter < f.prm.maxiter
    THEN [f EXCEPT !.res = res, !.pc = "precond"]
    ELSE [f EXCEPT !.res = res,
                   !.ret = [iterations |-> f.iter, relative_residual |-> res],
                   !.pc = "done"]

\* for(; (res = backend::norm(*r) / norm_of_rhs) > prm.tol && iter < prm.maxiter; ...)
LoopCheck(f) == LoopExit(f, Div(norm(f.r), f.norm_of_rhs))

\* P(*r, *s);
ApplyPrecond(f) ==
    [f EXCEPT !.s = PrecondApply(f.P, f.r), !.napply = @ + 1, !.pc = "rho"]

\* rho2 = rho1; rho1 = backend::inner_product(*r, *s);
UpdateRho(f) ==
    [f EXCEPT !.rho2 = f.rho1, !.rho1 = inner_product(f.r, f.s), !.pc = "direction"]

\* if (iter) backend::axpby(1, *s, (rho1 / rho2), *p); else backend::copy(*s, *p);
UpdateDirection(f) ==
    [f EXCEPT !.p = IF f.iter # 0
                    THEN axpby(One, f.s, Div(f.rho1, f.rho2), f.p)
                    ELSE copy(f.s),
              !.pc = "spmv"]

\* backend::spmv(1, A, *p, 0, *q);
SpMV(f) ==
    [f EXCEPT !.q = spmv(One, f.A, f.p, Zero, f.q), !.nspmv = @ + 1, !.pc = "alpha"]

\* value_type alpha = rho1 / backend::inner_product(*q, *p);
ComputeAlpha(f) ==
    [f EXCEPT !.alpha = Div(f.rho1, inner_product(f.q, f.p)), !.pc = "update_x"]

\* backend::axpby( alpha, *p, 1,  x);
UpdateX(f) ==
    [f EXCEPT !.x = axpby(f.alpha, f.p, One, f.x), !.pc = "update_r"]

\* backend::axpby(-alpha, *q, 1, *r); ++iter
UpdateR(f) ==
    [f EXCEPT !.r = axpby(Neg(f.alpha), f.q, One, f.r),
              !.iter = @ + 1, !.pc = "check"]

\* One statement of operator(), chosen by the position.
Statement(f) ==
    CASE f.pc = "residual"  -> Residual(f)
      [] f.pc = "init"      -> InitScalars(f)
      [] f.pc = "zero_rhs"  -> ZeroRhs(f)
      [] f.pc = "check"     -> LoopCheck(f)
      [] f.pc = "precond"   -> ApplyPrecond(f)
      [] f.pc = "rho"       -> UpdateRho(f)
      [] f.pc = "direction" -> UpdateDirection(f)
      [] f.pc = "spmv"      -> SpMV(f)
      [] f.pc = "alpha"     -> ComputeAlpha(f)
      [] f.pc = "update_x"  -> UpdateX(f)
      [] f.pc = "update_r"  -> UpdateR(f)
      [] OTHER              -> f

\* The frame at the entry of operator()(A, P, rhs, x) on engine e.  The locals
\* are not initialised yet; they are written before they are read.
Entry(e, A, P, rhs, x) ==
    [prm |-> e.prm, r |-> e.r, s |-> e.s, p |-> e.p, q |-> e.q,
     A |-> A, P |-> P, rhs |-> rhs, x |-> x,
     rho1 |-> Zero, rho2 |-> Zero, norm_of_rhs |-> Zero,
     iter |-> 0, res |-> Zero, alpha |-> Zero,
     pc |-> "residual",
     ret |-> [iterations |-> 0, relative_residual |-> Zero],
     napply |-> 0, nspmv |-> 0, i |-> 0, j |-> 0,
     u |-> Zero, v |-> Zero, acc |-> Zero]

\* The frame at entry of operator()(P, rhs, x), which calls the four-argument
\* form with A = P.top_matrix().
Entry3(e, P, rhs, x) == Entry(e, top_matrix(P), P, rhs, x)

\* operator()(A, P, rhs, x) run from entry to return with nothing interleaved.
RECURSIVE RunToReturn(_)
RunToReturn(f) == IF f.pc = "done" THEN f ELSE RunToReturn(Statement(f))

\* The four-argument solve on engine e as a function: the frame at return.
Solve(e, A, P, rhs, x) == RunToReturn(Entry(e, A, P, rhs, x))

\* The three-argument solve: return (*this)(P.top_matrix(), P, rhs, x);
Solve3(e, P, rhs, x) == RunToReturn(Entry3(e, P, rhs, x))

(***************************************************************************)
(* operator() access by access: what one activation does between two       *)
(* points at which another thread can run.  operator() is const and takes  *)
(* no lock, so every load from and every store to a scratch vector is a    *)
(* step of its own; what a step computes besides its one access works on   *)
(* the activation's registers u, v, acc and on the caller's own rhs and x. *)
(* Inside element i + 1 of a primitive, j tells which accesses are done:   *)
(* for a pair of operands 0 = none, 1 = the left one is in u, 2 = the      *)
(* right one is in v, 3 = both; for a row product the column of the last   *)
(* stored entry taken.  C++ leaves the order in which the two operands of  *)
(* a product or sum are loaded unspecified: left tells which one the build *)
(* loads first.  Statements that touch no scratch vector are one step.     *)
(***************************************************************************)
\* The frame with the registers released.
Release(f) == [f EXCEPT !.j = 0, !.u = Zero, !.v = Zero]

\* The frame after element k of a primitive is finished: inside the
\* statement when more elements follow, else at position next.
Advance(f, k, next) ==
    IF k < Len(f.rhs) THEN [Release(f) EXCEPT !.i = k, !.acc = Zero]
    ELSE [Release(f) EXCEPT !.i = 0, !.acc = Zero, !.pc = next]

\* One load of the operands a[i + 1] and b[i + 1]: the first load takes the
\* left operand when left holds and the right one otherwise, the second load
\* takes the other one.
LoadPair(f, a, b, left) ==
    IF f.j = 0
    THEN IF left THEN [f EXCEPT !.u = a[f.i + 1], !.j = 1]
         ELSE [f EXCEPT !.v = b[f.i + 1], !.j = 2]
    ELSE IF f.j = 1 THEN [f EXCEPT !.v = b[f.i + 1], !.j = 3]
    ELSE [f EXCEPT !.u = a[f.i + 1], !.j = 3]

\* backend::residual(rhs, A, x, *r): (*r)[i] is stored; rhs and x are the
\* caller's.
ResidualElement(f) ==
    Advance([f EXCEPT !.r[f.i + 1] = residual_at(f.rhs, f.A, f.x, f.i + 1)],
            f.i + 1, "init")

\* backend::norm(*r): (*r)[i] is loaded as the left and as the right operand
\* of the product; the last load of the last element divides and tests.
LoopCheckElement(f, left) ==
    LET g == LoadPair(f, f.r, f.r, left)
    IN  IF g.j # 3 THEN g
        ELSE IF f.i + 1 < Len(f.r)
        THEN [Release(g) EXCEPT !.acc = inner_product_term(f.acc, g.u, g.v),
                                !.i = f.i + 1]
        ELSE LoopExit([Release(g) EXCEPT !.acc = Zero, !.i = 0],
                      Div(Sqrt(inner_product_term(f.acc, g.u, g.v)), f.norm_of_rhs))

\* P(*r, *s): (*r)[j] is loaded for each stored entry of row i, then (*s)[i]
\* is stored.
ApplyPrecondElement(f) ==
    IF NextStored(f.P.M[f.i + 1], f.j) # 0
    THEN [f EXCEPT !.acc = RowDotTerm(f.acc, f.P.M[f.i + 1], f.r,
                                      NextStored(f.P.M[f.i + 1], f.j)),
                   !.j = NextStored(f.P.M[f.i + 1], f.j)]
    ELSE Advance([f EXCEPT !.s[f.i + 1] = f.acc,
                           !.napply = IF f.i + 1 = Len(f.s) THEN @ + 1 ELSE @],
                 f.i + 1, "rho")

\* backend::inner_product(*r, *s): (*r)[i] and (*s)[i] are loaded; the last
\* load of the last element assigns rho2 and rho1.
UpdateRhoElement(f, left) ==
    LET g == LoadPair(f, f.r, f.s, left)
    IN  IF g.j # 3 THEN g
        ELSE IF f.i + 1 < Len(f.r)
        THEN [Release(g) EXCEPT !.acc = inner_product_term(f.acc, g.u, g.v),
                                !.i = f.i + 1]
        ELSE [Release(g) EXCEPT !.rho2 = f.rho1,
                                !.rho1 = inner_product_term(f.acc, g.u, g.v),
                                !.acc = Zero, !.i = 0, !.pc = "direction"]

\* backend::axpby(1, *s, (rho1 / rho2), *p): (*s)[i] and (*p)[i] are loaded,
\* then (*p)[i] is stored.
\* backend::copy(*s, *p): (*s)[i] is loaded, then (*p)[i] is stored.
UpdateDirectionElement(f, left) ==
    IF f.iter # 0
    THEN IF f.j # 3 THEN LoadPair(f, f.s, f.p, left)
         ELSE Advance([f EXCEPT !.p[f.i + 1] =
                           axpby_term(One, f.u, Div(f.rho1, f.rho2), f.v)],
                      f.i + 1, "spmv")
    ELSE IF f.j = 0 THEN [f EXCEPT !.u = f.s[f.i + 1], !.j = 1]
    ELSE Advance([f EXCEPT !.p[f.i + 1] = f.u], f.i + 1, "spmv")

\* backend::spmv(1, A, *p, 0, *q): (*p)[j] is loaded for each stored entry of
\* row i of A, then (*q)[i] is loaded (j = n + 1), then (*q)[i] is stored.
SpMVElement(f) ==
    IF NextStored(f.A[f.i + 1], f.j) # 0
    THEN [f EXCEPT !.acc = RowDotTerm(f.acc, f.A[f.i + 1], f.p,
                                      NextStored(f.A[f.i + 1], f.j)),
                   !.j = NextStored(f.A[f.i + 1], f.j)]
    ELSE IF f.j <= Len(f.q)
    THEN [f EXCEPT !.v = f.q[f.i + 1], !.j = Len(f.q) + 1]
    ELSE Advance([f EXCEPT !.q[f.i + 1] = spmv_term(One, f.acc, Zero, f.v),
                           !.nspmv = IF f.i + 1 = Len(f.q) THEN @ + 1 ELSE @],
                 f.i + 1, "alpha")

\* backend::inner_product(*q, *p): (*q)[i] and (*p)[i] are loaded; the last
\* load of the last element divides rho1 by the sum.
ComputeAlphaElement(f, left) ==
    LET g == LoadPair(f, f.q, f.p, left)
    IN  IF g.j # 3 THEN g
        ELSE IF f.i + 1 < Len(f.q)
        THEN [Release(g) EXCEPT !.acc = inner_product_term(f.acc, g.u, g.v),
                                !.i = f.i + 1]
        ELSE [Release(g) EXCEPT !.alpha = Div(f.rho1,
                                              inner_product_term(f.acc, g.u, g.v)),
                                !.acc = Zero, !.i = 0, !.pc = "update_x"]

\* backend::axpby( alpha, *p, 1,  x): (*p)[i] is loaded and the caller's x[i]
\* updated.
UpdateXElement(f) ==
    Advance([f EXCEPT !.x[f.i + 1] = axpby_at(f.alpha, f.p, One, f.x, f.i + 1)],
            f.i + 1, "update_r")

\* backend::axpby(-alpha, *q, 1, *r): (*q)[i] and (*r)[i] are loaded, then
\* (*r)[i] is stored; ++iter after the last store.
UpdateRElement(f, left) ==
    IF f.j # 3 THEN LoadPair(f, f.q, f.r, left)
    ELSE Advance([f EXCEPT !.r[f.i + 1] = axpby_term(Neg(f.alpha), f.u, One, f.v),
                           !.iter = IF f.i + 1 = Len(f.r) THEN @ + 1 ELSE @],
                 f.i + 1, "check")

(***************************************************************************)
(* Inputs the callers draw from, for a problem of size n.                  *)
(***************************************************************************)
Two == FromInt(2)

Half == Div(One, Two)

\* The n-by-n diagonal matrix with diagonal d, as a sequence of rows.
Diag(n, d) == Tup([i \in 1..n |-> Tup([j \in 1..n |-> IF i = j THEN d[i] ELSE Zero])])

\* The identity matrix.
Identity(n) == Diag(n, [i \in 1..n |-> One])

\* diag(1, -1, 1, ...): symmetric and indefinite.
Flip(n) == Diag(n, [i \in 1..n |-> IF i % 2 = 1 THEN One ELSE FromInt(-1)])

\* tridiag(1, 2, 1): symmetric positive definite.
Tridiag(n) ==
    Tup([i \in 1..n |-> Tup([j \in 1..n |->
        IF i = j THEN Two ELSE IF i - j \in {-1, 1} THEN One ELSE Zero])])

\* diag(1, 2, ..., n): symmetric positive definite, n distinct eigenvalues.
DiagLin(n) == Diag(n, [i \in 1..n |-> FromInt(i)])

\* diag(4, 9, ..., (n+1)^2): the matrix of the scenario diag(4, 9, 16).
Squares(n) == Diag(n, [i \in 1..n |-> FromInt((i + 1) * (i + 1))])

\* diag(1, 9, 1, 9, ...): symmetric positive definite, condition number 9.
Stiff(n) == Diag(n, [i \in 1..n |-> IF i % 2 = 1 THEN One ELSE FromInt(9)])

\* The identity preconditioner: s := r.
IdentityPrecond(n) == [M |-> Identity(n), top |-> Identity(n)]

\* diag(1/2, ..., 1/2), the inverse of the diagonal of Tridiag(n).
JacobiTridiag(n) ==
    [M |-> Diag(n, [i \in 1..n |-> Half]), top |-> Tridiag(n)]

\* diag(1, 1/9, 1, 1/9, ...), the rounded inverse of Stiff(n).
JacobiStiff(n) ==
    [M |-> Diag(n, [i \in 1..n |-> IF i % 2 = 1 THEN One ELSE Div(One, FromInt(9))]),
     top |-> Stiff(n)]

\* diag(1, -1, 1, ...) as a preconditioner built for the identity: indefinite.
FlipPrecond(n) == [M |-> Flip(n), top |-> Identity(n)]

\* The e_k unit vector, the vector of ones.
Unit(n, k) == Tup([i \in 1..n |-> IF i = k THEN One ELSE Zero])

Ones(n) == Tup([i \in 1..n |-> One])

\* Right-hand sides of Spec: the zero vector and (1, 1, ...).
Rhs(n) == {create_vector(n), Ones(n)}

\* Fresh starting guesses of Spec: the zero vector and (1, 1, ...).
Guesses(n) == {create_vector(n), Ones(n)}

(***************************************************************************)
(* State.                                                                  *)
(*   eng      the engine: prm, n and the scratch vectors r, s, p, q        *)
(*   th[t]    caller t's activation of operator(): arguments, locals,      *)
(*            position, returned tuple; th[t].x is the caller's vector x   *)
(*   obs[t]   what an observer of caller t records: the number of calls    *)
(*            made, the form (3 or 4 arguments) and the x at entry of the  *)
(*            current call, the previous call and its outcome, whether all *)
(*            earlier calls returned a finite relative residual, whether   *)
(*            the current call divided by a zero rho2 or a zero <q, p>,    *)
(*            and whether it overlapped a call of another caller           *)
(***************************************************************************)
VARIABLES eng, th, obs

vars == <<eng, th, obs>>

Callers == {1, 2}

\* The frame of caller t: the engine's members and t's activation.
Frame(t) ==
    [prm |-> eng.prm, r |-> eng.r, s |-> eng.s, p |-> eng.p, q |-> eng.q,
     A |-> th[t].A, P |-> th[t].P, rhs |-> th[t].rhs, x |-> th[t].x,
     rho1 |-> th[t].rho1, rho2 |-> th[t].rho2,
     norm_of_rhs |-> th[t].norm_of_rhs, iter |-> th[t].iter,
     res |-> th[t].res, alpha |-> th[t].alpha, pc |-> th[t].pc,
     ret |-> th[t].ret, napply |-> th[t].napply, nspmv |-> th[t].nspmv,
     i |-> th[t].i, j |-> th[t].j, u |-> th[t].u, v |-> th[t].v,
     acc |-> th[t].acc]

\* The part of frame f that is caller t's activation.
Activation(f) ==
    [A |-> f.A, P |-> f.P, rhs |-> f.rhs, x |-> f.x,
     rho1 |-> f.rho1, rho2 |-> f.rho2, norm_of_rhs |-> f.norm_of_rhs,
     iter |-> f.iter, res |-> f.res, alpha |-> f.alpha, pc |-> f.pc,
     ret |-> f.ret, napply |-> f.napply, nspmv |-> f.nspmv,
     i |-> f.i, j |-> f.j, u |-> f.u, v |-> f.v, acc |-> f.acc]

\* Frame f written back: the members to the engine, the rest to caller t.
Store(t, f) ==
    /\ eng' = [eng EXCEPT !.prm = f.prm, !.r = f.r, !.s = f.s, !.p = f.p, !.q = f.q]
    /\ th' = [th EXCEPT ![t] = Activation(f)]

InFlight(t) == th[t].pc \notin {"idle", "done"}

\* A caller that has not called yet holds a vector x of n zeros.
IdleCaller(n) ==
    [Activation(Entry(cg(n, params(0, Zero)), <<>>, <<>>, <<>>, create_vector(n)))
        EXCEPT !.pc = "idle"]

\* The observer of a caller that has not called yet: there is no previous call.
InitObs ==
    [calls |-> 0, form |-> 0, x0 |-> <<>>,
     prev |-> [valid |-> FALSE, A |-> <<>>, P |-> <<>>, rhs |-> <<>>, x |-> <<>>,
               ret |-> [iterations |-> 0, relative_residual |-> Zero]],
     finite |-> TRUE, div_rho2 |-> FALSE, div_qp |-> FALSE, overlap |-> FALSE]

\* The engine after cg(n, params(maxiter, tol)); no caller has called yet.
InitWith(n, maxiters, tols) ==
    /\ \E m \in maxiters, tol \in tols : eng = cg(n, params(m, tol))
    /\ th = [t \in Callers |-> IdleCaller(n)]
    /\ obs = [t \in Callers |-> InitObs]

(***************************************************************************)
(* Actions.                                                                *)
(***************************************************************************)
\* What the observer records when caller t enters operator() with x.
ObserveCall(t, form, x) ==
    obs' = [u \in Callers |->
        IF u = t
        THEN [calls |-> obs[t].calls + 1, form |-> form, x0 |-> x,
              prev |-> IF th[t].pc = "done"
                       THEN [valid |-> TRUE, A |-> th[t].A, P |-> th[t].P,
                             rhs |-> th[t].rhs, x |-> th[t].x, ret |-> th[t].ret]
                       ELSE obs[t].prev,
              finite |-> IF th[t].pc = "done"
                         THEN obs[t].finite /\ IsFinite(th[t].ret.relative_residual)
                         ELSE obs[t].finite,
              div_rho2 |-> FALSE, div_qp |-> FALSE,
              overlap |-> \E v \in Callers \ {t} : InFlight(v)]
        ELSE [obs[u] EXCEPT !.overlap = @ \/ InFlight(u)]]

\* Caller t calls solver(A, P, rhs, x) with a fresh starting guess x.
Call4(t, systems, rhss, guesses) ==
    /\ ~InFlight(t)
    /\ \E sys \in systems, rhs \in rhss, x \in guesses :
          /\ Store(t, Entry(eng, sys.A, sys.P, rhs, x))
          /\ ObserveCall(t, 4, x)

\* Caller t calls solver(P, rhs, x): return (*this)(P.top_matrix(), P, rhs, x);
Call3(t, preconds, rhss, guesses) ==
    /\ ~InFlight(t)
    /\ \E P \in preconds, rhs \in rhss, x \in guesses :
          /\ Store(t, Entry3(eng, P, rhs, x))
          /\ ObserveCall(t, 3, x)

\* Caller t calls solver(A, P, rhs, x) again: the arguments of its last call
\* and the x that call left.
CallAgain(t) ==
    /\ th[t].pc = "done"
    /\ Store(t, Entry(eng, th[t].A, th[t].P, th[t].rhs, th[t].x))
    /\ ObserveCall(t, 4, th[t].x)

\* Caller t executes the statement at its position; one action per statement.
DoResidual(t) ==
    th[t].pc = "residual" /\ Store(t, Residual(Frame(t))) /\ UNCHANGED obs

DoInitScalars(t) ==
    th[t].pc = "init" /\ Store(t, InitScalars(Frame(t))) /\ UNCHANGED obs

DoZeroRhs(t) ==
    th[t].pc = "zero_rhs" /\ Store(t, ZeroRhs(Frame(t))) /\ UNCHANGED obs

DoLoopCheck(t) ==
    th[t].pc = "check" /\ Store(t, LoopCheck(Frame(t))) /\ UNCHANGED obs

DoApplyPrecond(t) ==
    th[t].pc = "precond" /\ Store(t, ApplyPrecond(Frame(t))) /\ UNCHANGED obs

DoUpdateRho(t) ==
    th[t].pc = "rho" /\ Store(t, UpdateRho(Frame(t))) /\ UNCHANGED obs

\* The observer notes a division rho1 / rho2 by zero.
DoUpdateDirection(t) ==
    /\ th[t].pc = "direction"
    /\ Store(t, UpdateDirection(Frame(t)))
    /\ obs' = [obs EXCEPT ![t].div_rho2 =
                  @ \/ (th[t].iter # 0 /\ IsZero(th[t].rho2))]

DoSpMV(t) ==
    th[t].pc = "spmv" /\ Store(t, SpMV(Frame(t))) /\ UNCHANGED obs

\* The observer notes a division rho1 / <q, p> by zero.
DoComputeAlpha(t) ==
    /\ th[t].pc = "alpha"
    /\ Store(t, ComputeAlpha(Frame(t)))
    /\ obs' = [obs EXCEPT ![t].div_qp = @ \/ IsZero(inner_product(eng.q, eng.p))]

DoUpdateX(t) ==
    th[t].pc = "update_x" /\ Store(t, UpdateX(Frame(t))) /\ UNCHANGED obs

DoUpdateR(t) ==
    th[t].pc = "update_r" /\ Store(t, UpdateR(Frame(t))) /\ UNCHANGED obs

\* One statement of caller t's activation.
Run(t) ==
    \/ DoResidual(t)
    \/ DoInitScalars(t)
    \/ DoZeroRhs(t)
    \/ DoLoopCheck(t)
    \/ DoApplyPrecond(t)
    \/ DoUpdateRho(t)
    \/ DoUpdateDirection(t)
    \/ DoSpMV(t)
    \/ DoComputeAlpha(t)
    \/ DoUpdateX(t)
    \/ DoUpdateR(t)

\* One step of caller t's activation, at its position: one access to a
\* scratch vector, the build loading either operand of a pair first.
Step(t) ==
    \/ th[t].pc = "residual" /\ Store(t, ResidualElement(Frame(t))) /\ UNCHANGED obs
    \/ th[t].pc = "init" /\ Store(t, InitScalars(Frame(t))) /\ UNCHANGED obs
    \/ th[t].pc = "zero_rhs" /\ Store(t, ZeroRhs(Frame(t))) /\ UNCHANGED obs
    \/ /\ th[t].pc = "check"
       /\ \E left \in BOOLEAN : Store(t, LoopCheckElement(Frame(t), left))
       /\ UNCHANGED obs
    \/ th[t].pc = "precond" /\ Store(t, ApplyPrecondElement(Frame(t))) /\ UNCHANGED obs
    \/ /\ th[t].pc = "rho"
       /\ \E left \in BOOLEAN : Store(t, UpdateRhoElement(Frame(t), left))
       /\ UNCHANGED obs
    \/ /\ th[t].pc = "direction"
       /\ \E left \in BOOLEAN : Store(t, UpdateDirectionElement(Frame(t), left))
       /\ UNCHANGED obs
    \/ th[t].pc = "spmv" /\ Store(t, SpMVElement(Frame(t))) /\ UNCHANGED obs
    \/ /\ th[t].pc = "alpha"
       /\ \E left \in BOOLEAN : Store(t, ComputeAlphaElement(Frame(t), left))
       /\ UNCHANGED obs
    \/ th[t].pc = "update_x" /\ Store(t, UpdateXElement(Frame(t))) /\ UNCHANGED obs
    \/ /\ th[t].pc = "update_r"
       /\ \E left \in BOOLEAN : Store(t, UpdateRElement(Frame(t), left))
       /\ UNCHANGED obs

(***************************************************************************)
(* Spec: sequential use.  One caller makes up to MaxCalls calls, one after *)
(* the other, on the same engine.                                          *)
(***************************************************************************)
\* The engine is constructed with tol = 0 or tol = 1/2.
Init == InitWith(Dim, 0..MaxIter, {Zero, Half})

\* The (A, P) pairs of the four-argument calls: a positive definite matrix
\* with a preconditioner built for another matrix, the same matrix and a
\* tridiagonal one with their Jacobi preconditioners, and two systems a
\* caller must not pass (an indefinite preconditioner, an indefinite matrix).
SeqCall4 ==
    /\ obs[1].calls < MaxCalls
    /\ Call4(1, {[A |-> Stiff(eng.n),    P |-> IdentityPrecond(eng.n)],
                 [A |-> Stiff(eng.n),    P |-> JacobiStiff(eng.n)],
                 [A |-> Tridiag(eng.n),  P |-> JacobiTridiag(eng.n)],
                 [A |-> Identity(eng.n), P |-> FlipPrecond(eng.n)],
                 [A |-> Flip(eng.n),     P |-> IdentityPrecond(eng.n)]},
             Rhs(eng.n), Guesses(eng.n))

SeqCall3 ==
    /\ obs[1].calls < MaxCalls
    /\ Call3(1, {IdentityPrecond(eng.n), JacobiStiff(eng.n), JacobiTridiag(eng.n),
                 FlipPrecond(eng.n)},
             Rhs(eng.n), Guesses(eng.n))

SeqCallAgain ==
    obs[1].calls < MaxCalls /\ CallAgain(1)

Next ==
    \/ SeqCall4
    \/ SeqCall3
    \/ SeqCallAgain
    \/ Run(1)

Spec == Init /\ [][Next]_vars

(***************************************************************************)
(* SpecSPD: one solve of a symmetric positive definite system of size      *)
(* Dim + 1, with the identity or a Jacobi preconditioner, on an engine     *)
(* constructed with maxiter in 0 .. n + 1.                                 *)
(***************************************************************************)
SpdSystems(n) ==
    {[A |-> A, P |-> IdentityPrecond(n)] :
         A \in {DiagLin(n), Tridiag(n), Stiff(n), Squares(n)}}
        \cup {[A |-> Tridiag(n), P |-> JacobiTridiag(n)]}

\* Right-hand sides: (1, 1, ...), (4, 9, 16, ...) and (2, 1, 0, ...).
SpdRhs(n) ==
    {Ones(n),
     Tup([i \in 1..n |-> FromInt((i + 1) * (i + 1))]),
     Tup([i \in 1..n |-> IF i = 1 THEN Two ELSE IF i = 2 THEN One ELSE Zero])}

\* Starting guesses: the zero vector and e_1.
SpdGuesses(n) == {create_vector(n), Unit(n, 1)}

\* Tolerances: zero, and 2^-20, far above the rounding errors of a solve.
SpdTols == {Zero, Div(One, FromInt(1048576))}

InitSPD == InitWith(Dim + 1, 0..(Dim + 2), SpdTols)

SpdCall ==
    obs[1].calls = 0 /\ Call4(1, SpdSystems(eng.n), SpdRhs(eng.n), SpdGuesses(eng.n))

NextSPD ==
    \/ SpdCall
    \/ Run(1)

SpecSPD == InitSPD /\ [][NextSPD]_vars

(***************************************************************************)
(* SpecExact: the engine instantiated with exact arithmetic.  One solve of *)
(* a symmetric positive definite system of size Dim + 1 on an engine       *)
(* constructed with maxiter in 0 .. n + 1; the matrices, vectors and       *)
(* tolerances are those of SpecSPD, every one of them a rational.          *)
(***************************************************************************)
ExactVector(v) == Tup([i \in 1..Len(v) |-> Exact(v[i])])

ExactMatrix(A) == Tup([i \in 1..Len(A) |-> ExactVector(A[i])])

ExactPrecond(P) == [M |-> ExactMatrix(P.M), top |-> ExactMatrix(P.top)]

\* The engine of an exact backend: tol and the scratch vectors are rationals.
InitExact ==
    /\ \E m \in 0..(Dim + 2), tol \in SpdTols :
          eng = [cg(Dim + 1, params(m, tol)) EXCEPT
                    !.prm.tol = Exact(@), !.r = ExactVector(@), !.s = ExactVector(@),
                    !.p = ExactVector(@), !.q = ExactVector(@)]
    /\ th = [t \in Callers |-> IdleCaller(Dim + 1)]
    /\ obs = [t \in Callers |-> InitObs]

ExactCall ==
    /\ obs[1].calls = 0
    /\ Call4(1, {[A |-> ExactMatrix(sys.A), P |-> ExactPrecond(sys.P)] :
                     sys \in SpdSystems(eng.n)},
             {ExactVector(v) : v \in SpdRhs(eng.n)},
             {ExactVector(v) : v \in SpdGuesses(eng.n)})

NextExact ==
    \/ ExactCall
    \/ Run(1)

SpecExact == InitExact /\ [][NextExact]_vars

(***************************************************************************)
(* SpecConc: two callers share one engine constructed with maxiter = 1 and *)
(* tol = 0, and make one call each; their steps interleave access by       *)
(* access.                                                                 *)
(***************************************************************************)
InitConc == InitWith(Dim, {1}, {Zero})

\* The callers pass diag(1, 2, ...) or tridiag(1, 2, 1) with the identity
\* preconditioner, the right-hand side e_1 and the starting guess 0.
ConcCall(t) ==
    /\ obs[t].calls = 0
    /\ Call4(t, {[A |-> DiagLin(eng.n), P |-> IdentityPrecond(eng.n)],
                 [A |-> Tridiag(eng.n), P |-> IdentityPrecond(eng.n)]},
             {Unit(eng.n, 1)}, {create_vector(eng.n)})

NextConc == \E t \in Callers : ConcCall(t) \/ Step(t)

SpecConc == InitConc /\ [][NextConc]_vars

(***************************************************************************)
(* Properties.                                                             *)
(***************************************************************************)
Done(t) == th[t].pc = "done"

\* The rhs of caller t's call has a nonzero norm: the call is not cut short.
NonzeroRhs(t) == ~Eq(norm(th[t].rhs), Zero)

\* What a caller sees of a returned frame.
Outcome(f) ==
    [iterations |-> f.ret.iterations,
     relative_residual |-> f.ret.relative_residual,
     x |-> f.x]

\* The current call of caller t, made on a freshly constructed engine with
\* the same parameters and run with nothing interleaved.
Alone(t) ==
    IF obs[t].form = 3
    THEN Solve3(cg(eng.n, eng.prm), th[t].P, th[t].rhs, obs[t].x0)
    ELSE Solve(cg(eng.n, eng.prm), th[t].A, th[t].P, th[t].rhs, obs[t].x0)

\* ||rhs - A*x|| / ||rhs|| for the system of caller t's call, computed with
\* the backend's primitives.
TrueResidual(t, x) ==
    Div(norm(residual(th[t].rhs, th[t].A, x)), norm(th[t].rhs))

\* C1: a solve whose rhs is the all-zero vector returns iterations = 0 and
\* relative_residual = 0, leaves x all-zero whatever x held at entry, and has
\* not called the preconditioner.
C1_ZeroRhsShortCircuit ==
    \A t \in Callers :
        (Done(t) /\ th[t].rhs = create_vector(eng.n)) =>
            /\ th[t].ret = [iterations |-> 0, relative_residual |-> Zero]
            /\ th[t].x = create_vector(eng.n)
            /\ th[t].napply = 0

\* C1 happens: a solve with a zero rhs and a nonzero x at entry has returned.
C1_Witness ==
    \E t \in Callers :
        /\ Done(t) /\ th[t].rhs = create_vector(eng.n)
        /\ obs[t].x0 # create_vector(eng.n)

\* C2 as stated: a solve with a nonzero rhs returns iterations <= maxiter and
\* exactly one of relative_residual <= tol and iterations == maxiter holds.
C2_ExactlyOneStopCondition ==
    \A t \in Callers :
        (Done(t) /\ NonzeroRhs(t)) =>
            /\ th[t].ret.iterations <= eng.prm.maxiter
            /\ Le(th[t].ret.relative_residual, eng.prm.tol)
                   # (th[t].ret.iterations = eng.prm.maxiter)

\* C2, amended: iter never exceeds maxiter and the loop body runs only with
\* iter < maxiter; a solve with a nonzero rhs returns with at least one of
\* relative_residual <= tol, iterations == maxiter, relative_residual NaN;
\* and a relative_residual > tol is returned only with iterations == maxiter.
C2_StopConditions ==
    \A t \in Callers :
        /\ th[t].iter <= eng.prm.maxiter
        /\ th[t].pc \in {"precond", "rho", "direction", "spmv", "alpha",
                         "update_x", "update_r"} => th[t].iter < eng.prm.maxiter
        /\ (Done(t) /\ NonzeroRhs(t)) =>
            /\ th[t].ret.iterations <= eng.prm.maxiter
            /\ \/ Le(th[t].ret.relative_residual, eng.prm.tol)
               \/ th[t].ret.iterations = eng.prm.maxiter
               \/ IsNaN(th[t].ret.relative_residual)
            /\ Gt(th[t].ret.relative_residual, eng.prm.tol)
                   => th[t].ret.iterations = eng.prm.maxiter

\* C2 happens: a solve that iterated returned at the iteration limit with
\* relative_residual > tol.
C2_Witness ==
    \E t \in Callers :
        /\ Done(t) /\ NonzeroRhs(t)
        /\ th[t].ret.iterations = eng.prm.maxiter
        /\ eng.prm.maxiter > 0
        /\ Gt(th[t].ret.relative_residual, eng.prm.tol)

\* C4: no step of a solve in flight (of either form, on any path) changes its
\* A, P or rhs, and no step at all changes the parameters or the size of the
\* engine.
C4_Frame ==
    [][/\ eng'.prm = eng.prm
       /\ eng'.n = eng.n
       /\ \A t \in Callers :
              InFlight(t) =>
                  /\ th'[t].A = th[t].A
                  /\ th'[t].P = th[t].P
                  /\ th'[t].rhs = th[t].rhs]_vars

\* C4 happens: a three-argument solve that iterated has returned, x written.
C4_Witness ==
    \E t \in Callers :
        /\ Done(t) /\ obs[t].form = 3
        /\ th[t].ret.iterations > 0
        /\ th[t].x # obs[t].x0

\* C5 as stated: with maxiter = 0, for every rhs, a solve returns iterations
\* = 0 and the relative residual of the x it was given, and has not called
\* the preconditioner or spmv nor changed x.
C5_MaxiterZeroAnyRhs ==
    \A t \in Callers :
        (Done(t) /\ eng.prm.maxiter = 0) =>
            /\ th[t].ret = [iterations |-> 0,
                            relative_residual |-> TrueResidual(t, obs[t].x0)]
            /\ th[t].napply = 0 /\ th[t].nspmv = 0
            /\ th[t].x = obs[t].x0

\* C5, amended: the same for every rhs whose norm is not zero.
C5_MaxiterZero ==
    \A t \in Callers :
        (Done(t) /\ eng.prm.maxiter = 0 /\ NonzeroRhs(t)) =>
            /\ th[t].ret = [iterations |-> 0,
                            relative_residual |-> TrueResidual(t, obs[t].x0)]
            /\ th[t].napply = 0 /\ th[t].nspmv = 0
            /\ th[t].x = obs[t].x0

\* C5 happens: with maxiter = 0 a solve with a nonzero rhs, a nonzero x at
\* entry and a residual above tol has returned.
C5_Witness ==
    \E t \in Callers :
        /\ Done(t) /\ eng.prm.maxiter = 0 /\ NonzeroRhs(t)
        /\ obs[t].x0 # create_vector(eng.n)
        /\ Gt(th[t].ret.relative_residual, eng.prm.tol)

\* The current call of caller t repeats its previous call, which returned
\* relative_residual <= tol: same A, P and rhs, and the x that call left.
RepeatsConverged(t) ==
    /\ obs[t].prev.valid
    /\ Le(obs[t].prev.ret.relative_residual, eng.prm.tol)
    /\ th[t].A = obs[t].prev.A
    /\ th[t].P = obs[t].prev.P
    /\ th[t].rhs = obs[t].prev.rhs
    /\ obs[t].x0 = obs[t].prev.x

\* C6 as stated: a solve that repeats a converged solve with the x it
\* produced returns iterations = 0 and the same relative residual, and leaves
\* x unchanged.
C6_Idempotence ==
    \A t \in Callers :
        (Done(t) /\ RepeatsConverged(t)) =>
            /\ th[t].ret.iterations = 0
            /\ th[t].ret.relative_residual = obs[t].prev.ret.relative_residual
            /\ th[t].x = obs[t].x0

\* C6, amended: a solve that repeats a converged solve with the x it produced,
\* when the relative residual recomputed from that x is <= tol as well,
\* returns iterations = 0 and the recomputed relative residual, and leaves x
\* unchanged.
C6_IdempotentOnTrueResidual ==
    \A t \in Callers :
        (/\ Done(t) /\ RepeatsConverged(t)
         /\ Le(TrueResidual(t, obs[t].x0), eng.prm.tol)) =>
            /\ th[t].ret.iterations = 0
            /\ th[t].ret.relative_residual = TrueResidual(t, obs[t].x0)
            /\ th[t].x = obs[t].x0

\* C6 happens: the repeat of a solve that converged after iterating has
\* returned iterations = 0 with a relative residual <= tol that is not the
\* one the first solve returned.
C6_Witness ==
    \E t \in Callers :
        /\ Done(t) /\ RepeatsConverged(t)
        /\ Le(TrueResidual(t, obs[t].x0), eng.prm.tol)
        /\ obs[t].prev.ret.iterations > 0
        /\ th[t].ret.iterations = 0
        /\ th[t].ret.relative_residual # obs[t].prev.ret.relative_residual

\* C7: a solve that divided by a zero rho2 (iter > 0) or by a zero <q, p>
\* returns a relative residual that is NaN or Inf and an x with a NaN or Inf
\* component, and has retried nothing: it called the preconditioner and spmv
\* once per iteration it counted.
C7_DegeneracyPropagates ==
    \A t \in Callers :
        (Done(t) /\ (obs[t].div_rho2 \/ obs[t].div_qp)) =>
            /\ ~IsFinite(th[t].ret.relative_residual)
            /\ \E i \in 1..eng.n : ~IsFinite(th[t].x[i])
            /\ th[t].napply = th[t].ret.iterations
            /\ th[t].nspmv = th[t].ret.iterations

\* C7 happens: a solve that divided by a zero rho2 has returned.
C7_Witness ==
    \E t \in Callers : Done(t) /\ obs[t].div_rho2

C3_ConvergesWithinN ==
    \A t \in Callers :
        (/\ Done(t) /\ NonzeroRhs(t)
         /\ th[t].P = ExactPrecond(IdentityPrecond(eng.n))
         /\ eng.prm.maxiter >= eng.n) =>
            /\ th[t].ret.iterations <= eng.n
            /\ Le(TrueResidual(t, th[t].x), eng.prm.tol)

\* C3 happens: the solve of diag(4, 9, 16) x = (4, 9, 16) from x = 0 with the
\* identity preconditioner and tol = 0 has returned x = (1, 1, 1) after
\* n = 3 iterations.
C3_Witness ==
    \E t \in Callers :
        /\ Done(t)
        /\ th[t].A = ExactMatrix(Squares(eng.n))
        /\ th[t].rhs = ExactVector(Tup([i \in 1..eng.n |-> FromInt((i + 1) * (i + 1))]))
        /\ obs[t].x0 = ExactVector(create_vector(eng.n))
        /\ th[t].P = ExactPrecond(IdentityPrecond(eng.n))
        /\ eng.prm.tol = Exact(Zero)
        /\ eng.n > 2
        /\ th[t].ret.iterations = eng.n
        /\ th[t].x = ExactVector(Ones(eng.n))

\* The outcome of the current call of caller t on an engine constructed with
\* maxiter = m and the same tol.
OutcomeWithMaxiter(t, m) ==
    Outcome(Solve(cg(eng.n, params(m, eng.prm.tol)),
                  th[t].A, th[t].P, th[t].rhs, obs[t].x0))

\* C9 as stated: for a symmetric positive definite system, the relative
\* residual returned with maxiter = m2 is never greater than the one returned
\* with any maxiter = m1 <= m2.
C9_MonotoneInMaxiter ==
    \A t \in Callers :
        (Done(t) /\ NonzeroRhs(t)) =>
            \A m1 \in 0..eng.prm.maxiter :
                Le(th[t].ret.relative_residual,
                   OutcomeWithMaxiter(t, m1).relative_residual)

\* C9, amended: for every m1 <= m2 such that the solve with maxiter = m1
\* returned relative_residual <= tol, the solve with maxiter = m2 returns the
\* same iterations, relative residual and x.
C9_MonotoneOnceConverged ==
    \A t \in Callers :
        (Done(t) /\ NonzeroRhs(t)) =>
            \A m1 \in 0..eng.prm.maxiter :
                Le(OutcomeWithMaxiter(t, m1).relative_residual, eng.prm.tol)
                    => Outcome(Frame(t)) = OutcomeWithMaxiter(t, m1)

\* C9 happens: a solve has returned on an engine whose maxiter is above the
\* number of iterations after which the same solve converged with a smaller
\* maxiter, to a residual that is not zero.
C9_Witness ==
    \E t \in Callers :
        /\ Done(t) /\ NonzeroRhs(t)
        /\ \E m1 \in 1..(eng.prm.maxiter - 1) :
              /\ OutcomeWithMaxiter(t, m1).iterations = m1
              /\ Le(OutcomeWithMaxiter(t, m1).relative_residual, eng.prm.tol)
              /\ ~IsZero(OutcomeWithMaxiter(t, m1).relative_residual)

\* C8: a solve that no solve of the other caller overlapped returns the
\* outcome of the same call run alone, so that a different outcome of an
\* overlapped solve is the effect of the interleaving.
C8_AloneUnlessOverlapped ==
    \A t \in Callers :
        (Done(t) /\ ~obs[t].overlap) => Outcome(Frame(t)) = Outcome(Alone(t))

\* C8 happens: a solve overlapped by a solve of the other caller has
\* returned an outcome different from the outcome of the same call run alone.
C8_Witness ==
    \E t \in Callers :
        /\ Done(t) /\ obs[t].overlap
        /\ Outcome(Frame(t)) # Outcome(Alone(t))

=============================================================================
